---- MODULE Spec2Model ----
(***************************************************************************)
(* Model of meshcore-keygen's concurrent key search:                       *)
(*   - main, create_search_config               (src/src/main.rs)          *)
(*   - CpuKeySearcher::search / spawn_workers   (src/src/cpu.rs)           *)
(*   - run_key_search: coordinator, monitor thread, consumer loop          *)
(*                                              (src/src/keygen.rs)        *)
(*   - SearchStats, SearchBehavior, FoundKey    (src/src/types.rs)         *)
(*   - check_prefix_match, hex_string_to_bytes, create_meshcore_private_key,*)
(*     validate_meshcore_key_format, extract_public_key_from_meshcore_key   *)
(*                                              (src/src/utils.rs)         *)
(*                                                                         *)
(* Every atomic access of SearchStats (load, store, fetch_add) is one      *)
(* step of the thread that performs it; thread-local computation is        *)
(* folded into the step of the next shared access.  Atomics are modelled   *)
(* as sequentially consistent: every access in the source is a single      *)
(* atomic operation on one location, and fetch_add is a read-modify-write  *)
(* that always acts on the latest value.                                   *)
(***************************************************************************)
EXTENDS Integers, Sequences, FiniteSets, TLC

(***************************************************************************)
(* Bounds of the model.                                                    *)
(***************************************************************************)
\* largest worker count (config.cpu_threads) explored
MaxWorkers == 2
\* largest N of SearchBehavior::FindN(N) explored
MaxN == 1
\* non-matching candidates all workers may generate while the flag is false
MaxMisses == 1
\* matching candidates all workers may generate while the flag is false
MaxMatches == 1
\* the worker loop runs with batch_size and UPDATE_INTERVAL divided by these
BatchScale == 512
IntervalScale == 2500
\* longest byte sequence and longest hex string handed to a utils.rs function
MaxLen == 3
\* longest pattern length handed to the batch size selection
MaxPrefixLen == 8
\* calls of log_found_key in a row, and lines of the key file before them
MaxCalls == 3
MaxLines == 2

(***************************************************************************)
(* Program constants.                                                      *)
(***************************************************************************)
UPDATE_INTERVAL == 5000

(***************************************************************************)
(* Hex strings are sequences of one-character strings, bytes are 0..255.   *)
(* "e_acute" and "E_ACUTE" stand for the characters U+00E9 and U+00C9,     *)
(* which take two bytes each in a Rust string.                             *)
(***************************************************************************)
HexUpper == <<"0","1","2","3","4","5","6","7","8","9","A","B","C","D","E","F">>
HexLower == <<"0","1","2","3","4","5","6","7","8","9","a","b","c","d","e","f">>

\* char::to_uppercase restricted to the characters the model uses
to_uppercase_char(c) ==
    IF \E k \in 11..16 : HexLower[k] = c
    THEN HexUpper[CHOOSE k \in 11..16 : HexLower[k] = c]
    ELSE IF c = "e_acute" THEN "E_ACUTE"
    ELSE c

\* char::len_utf8 of the characters the model uses
len_utf8(c) == IF c \in {"e_acute", "E_ACUTE"} THEN 2 ELSE 1

\* str::len: the length of a string in bytes
RECURSIVE str_len(_)
str_len(s) == IF s = <<>> THEN 0 ELSE len_utf8(Head(s)) + str_len(Tail(s))

to_uppercase(s) == [k \in 1..Len(s) |-> to_uppercase_char(s[k])]

is_ascii_hexdigit(c) == \E k \in 1..16 : HexUpper[k] = c \/ HexLower[k] = c

\* value of one hex digit (u8::from_str_radix on an upper-cased, cleaned digit)
HexVal(c) == (CHOOSE k \in 1..16 : HexUpper[k] = c \/ HexLower[k] = c) - 1

\* variant: an odd length is padded with "0" at the front
hex_string_to_bytes_PadFront(hex) ==
    LET up      == to_uppercase(hex)
        padded  == IF Len(up) % 2 = 1 THEN <<"0">> \o up ELSE up
        cleaned == [k \in 1..Len(padded) |->
                      IF is_ascii_hexdigit(padded[k]) THEN padded[k] ELSE "0"]
    IN  [k \in 1..(Len(cleaned) \div 2) |->
            16 * HexVal(cleaned[2 * k - 1]) + HexVal(cleaned[2 * k])]

\* utils.rs hex_string_to_bytes: uppercase, pad an odd length with "0" at the
\* end, replace every non-hex character by "0", then parse two digits a byte
hex_string_to_bytes(hex) ==
    LET up      == to_uppercase(hex)
        padded  == IF str_len(up) % 2 = 1 THEN Append(up, "0") ELSE up
        cleaned == [k \in 1..Len(padded) |->
                      IF is_ascii_hexdigit(padded[k]) THEN padded[k] ELSE "0"]
    IN  [k \in 1..(Len(cleaned) \div 2) |->
            16 * HexVal(cleaned[2 * k - 1]) + HexVal(cleaned[2 * k])]

\* utils.rs:26-29  &hex[i..i + 2] panics when i + 2 exceeds the length of the
\* cleaned string, which is all ASCII: the parity that was padded is the one
\* of the byte length before the cleaning, and the cleaning makes every
\* character one byte long
hex_string_to_bytes_panics(hex) ==
    LET up      == to_uppercase(hex)
        padded  == IF str_len(up) % 2 = 1 THEN Append(up, "0") ELSE up
        cleaned == [k \in 1..Len(padded) |->
                      IF is_ascii_hexdigit(padded[k]) THEN padded[k] ELSE "0"]
    IN  str_len(cleaned) % 2 = 1

\* variant: the pattern may start at any offset of the key
check_prefix_match_Anywhere(public_key_bytes, prefix_bytes) ==
    \E off \in 0..(Len(public_key_bytes) - Len(prefix_bytes)) :
        SubSeq(public_key_bytes, off + 1, off + Len(prefix_bytes)) = prefix_bytes

\* utils.rs check_prefix_match
check_prefix_match(public_key_bytes, prefix_bytes) ==
    IF Len(prefix_bytes) > Len(public_key_bytes)
    THEN FALSE
    ELSE SubSeq(public_key_bytes, 1, Len(prefix_bytes)) = prefix_bytes

\* variant: the low nibble of each byte is written first
hex_encode_upper_LowNibbleFirst(bytes) ==
    [k \in 1..(2 * Len(bytes)) |->
        IF k % 2 = 1
        THEN HexUpper[(bytes[(k + 1) \div 2] % 16) + 1]
        ELSE HexUpper[(bytes[k \div 2] \div 16) + 1]]

\* hex::encode(bytes).to_uppercase(): two upper-case digits a byte, high
\* nibble first
hex_encode_upper(bytes) ==
    [k \in 1..(2 * Len(bytes)) |->
        IF k % 2 = 1
        THEN HexUpper[(bytes[(k + 1) \div 2] \div 16) + 1]
        ELSE HexUpper[(bytes[k \div 2] % 16) + 1]]

\* cpu.rs: batch size chosen from the pattern length
\* variant: the first two arms are exchanged
batch_size_Swapped(prefix_len) ==
    IF prefix_len \in 1..4 THEN 2048
    ELSE IF prefix_len \in 5..6 THEN 1024
    ELSE 4096

batch_size(prefix_len) ==
    IF prefix_len \in 1..4 THEN 1024
    ELSE IF prefix_len \in 5..6 THEN 2048
    ELSE 4096

\* the loop bounds the model runs the worker with
ModelBatch(prefix_len) == batch_size(prefix_len) \div BatchScale
ModelInterval == UPDATE_INTERVAL \div IntervalScale

\* main.rs:80  "0123456789ABCDEF".contains(c) for every character of the pattern
all_upper_hex(p) == \A k \in 1..Len(p) : \E d \in 1..16 : HexUpper[d] = p[k]

\* variant: max_keys is wrapped in FindN whatever its value
search_behavior_of_AlwaysFindN(n) == [kind |-> "FindN", n |-> n]

\* main.rs:91-94  match max_keys { 0 => Continuous, n => FindN(n) }
search_behavior_of(n) ==
    IF n = 0 THEN [kind |-> "Continuous", n |-> 0] ELSE [kind |-> "FindN", n |-> n]

\* main.rs:97-100  available_parallelism()?.get().saturating_sub(1).max(1)
cpu_threads_of(n) ==
    LET reserved == IF n >= 1 THEN n - 1 ELSE 0
    IN  IF reserved >= 1 THEN reserved ELSE 1

\* the value of a Result that holds no SearchConfig
NoConfig ==
    [prefix |-> <<>>, search_behavior |-> [kind |-> "Continuous", n |-> 0], cpu_threads |-> 0]

\* variant: the pattern is validated as typed, without upper-casing it first
create_search_config_NoUpper(p, n, par) ==
    IF ~all_upper_hex(p)
    THEN [ok |-> FALSE, error |-> "Invalid hex characters", config |-> NoConfig]
    ELSE IF p = <<>>
    THEN [ok |-> FALSE, error |-> "Pattern cannot be empty", config |-> NoConfig]
    ELSE IF ~par.ok
    THEN [ok |-> FALSE, error |-> "available_parallelism", config |-> NoConfig]
    ELSE [ok |-> TRUE, error |-> "",
          config |-> [prefix |-> to_uppercase(p),
                      search_behavior |-> search_behavior_of(n),
                      cpu_threads |-> cpu_threads_of(par.n)]]

\* main.rs:76-107 create_search_config(pattern, max_keys); par is what
\* std::thread::available_parallelism returns (Err, or Ok of a count >= 1)
create_search_config(p, n, par) ==
    LET up == to_uppercase(p)
    IN  IF ~all_upper_hex(up)
        THEN [ok |-> FALSE, error |-> "Invalid hex characters", config |-> NoConfig]
        ELSE IF up = <<>>
        THEN [ok |-> FALSE, error |-> "Pattern cannot be empty", config |-> NoConfig]
        ELSE IF ~par.ok
        THEN [ok |-> FALSE, error |-> "available_parallelism", config |-> NoConfig]
        ELSE [ok |-> TRUE, error |-> "",
              config |-> [prefix |-> up,
                          search_behavior |-> search_behavior_of(n),
                          cpu_threads |-> cpu_threads_of(par.n)]]

(***************************************************************************)
(* Inputs.                                                                 *)
(***************************************************************************)
\* patterns as create_search_config yields them (non-empty upper-case hex)
Prefixes == { <<"A","B">> }
\* a pattern of five or six digits, which selects the medium batch size; it is
\* the beginning of the first candidate's public key (AB 12 15)
LongPrefixes == { <<"A","B","1","2","1","5">> }

\* patterns as typed on the command line: empty, mixed case, odd length,
\* with a character that is no hex digit
Patterns == { <<>>, <<"a","B">>, <<"A">>, <<"G">>, <<"A","G">> }

\* what std::thread::available_parallelism may return
Parallelism == { [ok |-> FALSE, n |-> 0] } \cup { [ok |-> TRUE, n |-> k] : k \in {1, 2, 3} }

\* a 32-byte array that starts with the bytes b1, b2
Bytes32(b1, b2) ==
    [k \in 1..32 |-> IF k = 1 THEN b1 ELSE IF k = 2 THEN b2 ELSE (7 * k) % 256]

\* what one iteration may draw: a seed from the thread's generator and the
\* public key SigningKey::from_bytes derives from it (leading bytes AB 12,
\* A0 AB); id names the candidate
Candidates == { [id |-> 1, seed |-> Bytes32(1, 2), public_key |-> Bytes32(171, 18)],
                [id |-> 2, seed |-> Bytes32(3, 4), public_key |-> Bytes32(160, 171)] }

\* stand-in for byte k (1..64) of the SHA-512 digest of a seed
Sha512Byte(seed, k) == (37 * seed[((k - 1) % Len(seed)) + 1] + 11 * k) % 256

\* bit k (0 = lowest) of a byte
Bit(x, k) == (x \div (2 ^ k)) % 2

\* x & m on u8, bit by bit
BitAnd(x, m) ==
    LET b(k) == Bit(x, k) * Bit(m, k)
    IN  b(0) + 2 * b(1) + 4 * b(2) + 8 * b(3) + 16 * b(4) + 32 * b(5) + 64 * b(6) + 128 * b(7)

\* x | m on u8, bit by bit
BitOr(x, m) ==
    LET b(k) == IF Bit(x, k) = 1 \/ Bit(m, k) = 1 THEN 1 ELSE 0
    IN  b(0) + 2 * b(1) + 4 * b(2) + 8 * b(3) + 16 * b(4) + 32 * b(5) + 64 * b(6) + 128 * b(7)

\* variant: byte 31 is masked but bit 6 is not set afterwards
create_meshcore_private_key_NoSet6(seed) ==
    [k \in 1..64 |->
        IF k = 1 THEN BitAnd(Sha512Byte(seed, 1), 248)
        ELSE IF k = 32 THEN BitAnd(Sha512Byte(seed, 32), 63)
        ELSE Sha512Byte(seed, k)]

\* utils.rs create_meshcore_private_key: digest, then expanded_key[0] &= 248,
\* expanded_key[31] &= 63, expanded_key[31] |= 64
create_meshcore_private_key(seed) ==
    [k \in 1..64 |->
        IF k = 1 THEN BitAnd(Sha512Byte(seed, 1), 248)
        ELSE IF k = 32 THEN BitOr(BitAnd(Sha512Byte(seed, 32), 63), 64)
        ELSE Sha512Byte(seed, k)]

\* variant: every input of at least 64 bytes yields a key
extract_public_key_from_meshcore_key_AtLeast(private_key_bytes) ==
    IF Len(private_key_bytes) < 64
    THEN [some |-> FALSE, value |-> <<>>]
    ELSE [some |-> TRUE, value |-> SubSeq(private_key_bytes, 1, 32)]

\* utils.rs extract_public_key_from_meshcore_key: None unless 64 bytes; the
\* point multiplication itself cannot fail, its result is kept abstract as
\* the scalar bytes
extract_public_key_from_meshcore_key(private_key_bytes) ==
    IF Len(private_key_bytes) # 64
    THEN [some |-> FALSE, value |-> <<>>]
    ELSE [some |-> TRUE, value |-> SubSeq(private_key_bytes, 1, 32)]

\* utils.rs validate_meshcore_key_format
validate_meshcore_key_format(private_key_bytes) ==
    IF Len(private_key_bytes) # 64
    THEN FALSE
    ELSE extract_public_key_from_meshcore_key(private_key_bytes).some

Behaviors == { [kind |-> "Continuous", n |-> 0] }
             \cup { [kind |-> "FindN", n |-> k] : k \in 1..MaxN }

VARIABLES
    \* main: the command-line arguments, the result of available_parallelism,
    \* the error create_search_config returned
    pattern, max_keys, parallelism, config_error,
    \* a single call of a function of utils.rs and the value it returned
    call, ret,
    \* SearchConfig
    prefix, search_behavior, cpu_threads,
    \* SearchStats
    total_attempts, prefix_matches, stop_search,
    \* found-key channel: queued keys, the coordinator's Sender, the Receiver
    chan, found_sender, found_receiver,
    \* CpuKeySearcher::search, per worker
    w_pc, prefix_bytes, local_attempts, batch_i, w_key,
    \* monitor thread
    mon_pc, last_attempts, prefix_found,
    \* run_key_search on the calling thread
    main_pc, total_found, found_key, key_file,
    \* bookkeeping: candidates generated by all workers, per worker those
    \* generated after the stop flag was set, and the matching candidates
    \* dropped because their expanded key was not accepted
    generated, gen_after_stop, discarded,
    \* whether the result of validate_meshcore_key_format is left open in
    \* the worker (FALSE: it is the value the function computes)
    open_validation,
    \* the SecureString objects under observation (secure.rs)
    secure,
    \* log_found_key called on its own: the key file before the first call,
    \* the keys of the calls that returned Ok, the number of calls that failed
    log_calls

cli_vars    == <<pattern, max_keys, parallelism, config_error>>
call_vars   == <<call, ret>>
config_vars == <<prefix, search_behavior, cpu_threads>>
\* what no step of run_key_search or of a worker changes
fixed_vars  == <<cli_vars, call_vars, config_vars, open_validation, secure, log_calls>>
stats_vars  == <<total_attempts, prefix_matches, stop_search>>
chan_vars   == <<chan, found_sender, found_receiver>>
worker_vars == <<w_pc, prefix_bytes, local_attempts, batch_i, w_key, generated, gen_after_stop, discarded>>
mon_vars    == <<mon_pc, last_attempts, prefix_found>>
main_vars   == <<main_pc, total_found, found_key, key_file>>
vars == <<fixed_vars, stats_vars, chan_vars, worker_vars, mon_vars, main_vars>>

Workers == 1..cpu_threads

RECURSIVE SumTo(_, _)
SumTo(f, n) == IF n = 0 THEN 0 ELSE f[n] + SumTo(f, n - 1)
\* sum of a per-worker counter
Total(f) == SumTo(f, cpu_threads)

AllWorkersDone == \A w \in Workers : w_pc[w] = "done"

\* types.rs SearchStats::new and the locals of run_key_search before spawn
\* no call of a utils.rs function is under way
NoCall == [fn |-> "none", args |-> <<>>]
NoRet == [done |-> FALSE, value |-> <<>>]
\* log_found_key has not been called on its own
NoLog == [before |-> <<>>, keys |-> <<>>, failed |-> 0]

InitRunOf(prefixes, behaviors) ==
    /\ prefix \in prefixes
    /\ search_behavior \in behaviors
    /\ cpu_threads \in 1..MaxWorkers
    /\ pattern = prefix
    /\ max_keys = search_behavior.n
    /\ parallelism = [ok |-> TRUE, n |-> cpu_threads + 1]
    /\ config_error = ""
    /\ call = NoCall
    /\ ret = NoRet
    /\ total_attempts = 0
    /\ prefix_matches = 0
    /\ chan = <<>>
    /\ found_sender = TRUE
    /\ found_receiver = TRUE
    /\ w_pc = [w \in 1..cpu_threads |-> "idle"]
    /\ prefix_bytes = [w \in 1..cpu_threads |-> <<>>]
    /\ local_attempts = [w \in 1..cpu_threads |-> 0]
    /\ batch_i = [w \in 1..cpu_threads |-> 0]
    /\ w_key = [w \in 1..cpu_threads |-> 0]
    /\ generated = 0
    /\ gen_after_stop = [w \in 1..cpu_threads |-> 0]
    /\ discarded = 0
    /\ secure = <<>>
    /\ log_calls = NoLog
    /\ mon_pc = "idle"
    /\ last_attempts = 0
    /\ prefix_found = 0
    /\ total_found = 0
    /\ found_key = 0
    /\ key_file = <<>>

InitRun(prefixes) == InitRunOf(prefixes, Behaviors)

InitCommon == InitRun(Prefixes)

\* run_key_search after SearchStats::new and channel::unbounded
Init ==
    /\ InitCommon
    /\ open_validation = FALSE
    /\ stop_search = FALSE
    /\ main_pc = "start"

(***************************************************************************)
(* CpuKeySearcher::search, one instance per worker thread.                 *)
(*   idle  : not yet spawned                                               *)
(*   outer : while !stop_search.load(); a spawned worker starts here with  *)
(*           its batch size and prefix_bytes computed (cpu.rs:26-40)       *)
(*   inner : for _ in 0..batch_size { if stop_search.load() { break } ...  *)
(*   gen   : seed, key pair, prefix check, validation, fetch_add of match  *)
(*   send  : found_sender.send(found_key)                                  *)
(*   count : local_attempts += 1 and the periodic flush                    *)
(*   flush : the final flush after the loop                                *)
(*   done  : the function has returned (its Sender clone is dropped)       *)
(***************************************************************************)

\* the model's cap on generation; it never restrains a worker once the flag
\* is set, and never keeps the workers short of the target of FindN
GenAllowed(is_match) ==
    \/ stop_search
    \/ IF is_match
       THEN \/ prefix_matches < MaxMatches
            \/ search_behavior.kind = "FindN" /\ prefix_matches < search_behavior.n
       ELSE generated - prefix_matches < MaxMisses

\* variant: the while loop does not test the flag (loop { ... })
WorkerOuterCheck_NoTest(w) ==
    /\ w_pc[w] = "outer"
    /\ w_pc' = [w_pc EXCEPT ![w] = "inner"]
    /\ batch_i' = [batch_i EXCEPT ![w] = 0]
    /\ UNCHANGED <<fixed_vars, stats_vars, chan_vars, mon_vars, main_vars,
                   prefix_bytes, local_attempts, w_key, generated, gen_after_stop, discarded>>

\* variant: the while condition is inverted (while stop_search.load())
WorkerOuterCheck_Inverted(w) ==
    /\ w_pc[w] = "outer"
    /\ IF ~stop_search
       THEN /\ w_pc' = [w_pc EXCEPT ![w] = "flush"]
            /\ UNCHANGED batch_i
       ELSE /\ w_pc' = [w_pc EXCEPT ![w] = "inner"]
            /\ batch_i' = [batch_i EXCEPT ![w] = 0]
    /\ UNCHANGED <<fixed_vars, stats_vars, chan_vars, mon_vars, main_vars,
                   prefix_bytes, local_attempts, w_key, generated, gen_after_stop, discarded>>

\* cpu.rs:42  while !stats.stop_search.load(Relaxed)
WorkerOuterCheck(w) ==
    /\ w_pc[w] = "outer"
    /\ IF stop_search
       THEN /\ w_pc' = [w_pc EXCEPT ![w] = "flush"]
            /\ UNCHANGED batch_i
       ELSE /\ w_pc' = [w_pc EXCEPT ![w] = "inner"]
            /\ batch_i' = [batch_i EXCEPT ![w] = 0]
    /\ UNCHANGED <<fixed_vars, stats_vars, chan_vars, mon_vars, main_vars,
                   prefix_bytes, local_attempts, w_key, generated, gen_after_stop, discarded>>

\* variant: the for loop does not test the flag, only the while loop does
WorkerInnerCheck_NoTest(w) ==
    /\ w_pc[w] = "inner"
    /\ w_pc' = [w_pc EXCEPT ![w] = "gen"]
    /\ UNCHANGED <<fixed_vars, stats_vars, chan_vars, mon_vars, main_vars,
                   prefix_bytes, local_attempts, batch_i, w_key, generated, gen_after_stop, discarded>>

\* cpu.rs:44-47  for _ in 0..batch_size { if stop_search.load() { break; }
WorkerInnerCheck(w) ==
    /\ w_pc[w] = "inner"
    /\ IF stop_search
       THEN w_pc' = [w_pc EXCEPT ![w] = "outer"]
       ELSE w_pc' = [w_pc EXCEPT ![w] = "gen"]
    /\ UNCHANGED <<fixed_vars, stats_vars, chan_vars, mon_vars, main_vars,
                   prefix_bytes, local_attempts, batch_i, w_key, generated, gen_after_stop, discarded>>

\* variant: the flush stores the local count instead of adding it (a load and
\* a store in place of fetch_add lose what other workers added)
CountAttempt_Store(w) ==
    /\ LET n == local_attempts[w] + 1
       IN  IF n % ModelInterval = 0
           THEN /\ total_attempts' = n
                /\ local_attempts' = [local_attempts EXCEPT ![w] = 0]
           ELSE /\ local_attempts' = [local_attempts EXCEPT ![w] = n]
                /\ UNCHANGED total_attempts
    /\ batch_i' = [batch_i EXCEPT ![w] = @ + 1]
    /\ w_pc' = [w_pc EXCEPT ![w] =
                  IF batch_i[w] + 1 >= ModelBatch(Len(prefix)) THEN "outer" ELSE "inner"]

\* variant: every attempt is added to the shared counter at once
CountAttempt_FlushEach(w) ==
    /\ total_attempts' = total_attempts + local_attempts[w] + 1
    /\ local_attempts' = [local_attempts EXCEPT ![w] = 0]
    /\ batch_i' = [batch_i EXCEPT ![w] = @ + 1]
    /\ w_pc' = [w_pc EXCEPT ![w] =
                  IF batch_i[w] + 1 >= ModelBatch(Len(prefix)) THEN "outer" ELSE "inner"]

\* variant: every candidate passes the prefix check
IsMatch_Any(w, c) == TRUE

\* cpu.rs:59  the prefix check of worker w on the candidate c
IsMatch(w, c) == check_prefix_match(c.public_key, prefix_bytes[w])

\* cpu.rs:65-70  the FoundKey built for a matching candidate
MakeFoundKey(c) ==
    [private_key |-> hex_encode_upper(create_meshcore_private_key(c.seed)),
     public_key  |-> hex_encode_upper(c.public_key)]

\* A FoundKey travels from the worker through the channel to the consumer and
\* the key file unchanged; w_key, chan, found_key and key_file hold it as the
\* id of the candidate it was built from (0: no key), and FoundKeyOf gives its
\* two strings
FoundKeyOf(id) == MakeFoundKey(CHOOSE c \in Candidates : c.id = id)

\* cpu.rs:80-88  local_attempts += 1, flush every UPDATE_INTERVAL, and on to
\* the next iteration of the for loop (or, after the last, of the while loop)
CountAttempt(w) ==
    /\ LET n == local_attempts[w] + 1
       IN  IF n % ModelInterval = 0
           THEN /\ total_attempts' = total_attempts + n
                /\ local_attempts' = [local_attempts EXCEPT ![w] = 0]
           ELSE /\ local_attempts' = [local_attempts EXCEPT ![w] = n]
                /\ UNCHANGED total_attempts
    /\ batch_i' = [batch_i EXCEPT ![w] = @ + 1]
    /\ w_pc' = [w_pc EXCEPT ![w] =
                  IF batch_i[w] + 1 >= ModelBatch(Len(prefix)) THEN "outer" ELSE "inner"]

\* cpu.rs:61-64  what the validation of the expanded key of c may answer: the
\* value validate_meshcore_key_format computes, or, where the worker is
\* examined with the answer of its callee left open, either answer
ValidationOutcomes(c) ==
    IF open_validation
    THEN BOOLEAN
    ELSE { validate_meshcore_key_format(create_meshcore_private_key(c.seed)) }

\* variant: the match is counted before the key is validated
WorkerGen_CountsUnvalidated(w, c) ==
    /\ w_pc[w] = "gen"
    /\ \E valid \in ValidationOutcomes(c) :
          /\ GenAllowed(IsMatch(w, c) /\ valid)
          /\ IF IsMatch(w, c) /\ valid
             THEN /\ prefix_matches' = prefix_matches + 1
                  /\ w_key' = [w_key EXCEPT ![w] = c.id]
                  /\ w_pc' = [w_pc EXCEPT ![w] = "send"]
                  /\ UNCHANGED <<total_attempts, local_attempts, batch_i, discarded>>
             ELSE /\ CountAttempt(w)
                  /\ discarded' = IF IsMatch(w, c) THEN discarded + 1 ELSE discarded
                  /\ prefix_matches' = IF IsMatch(w, c) THEN prefix_matches + 1
                                       ELSE prefix_matches
                  /\ UNCHANGED w_key
    /\ generated' = generated + 1
    /\ gen_after_stop' = [gen_after_stop EXCEPT ![w] = IF stop_search THEN @ + 1 ELSE @]
    /\ UNCHANGED <<fixed_vars, stop_search, chan_vars, mon_vars, main_vars,
                   prefix_bytes>>

\* cpu.rs:49-88  one candidate: generate, check, validate; a match is counted
\* in prefix_matches and goes on to the send, any other candidate is counted
\* as an attempt at once
WorkerGen(w, c) ==
    /\ w_pc[w] = "gen"
    /\ \E valid \in ValidationOutcomes(c) :
          /\ GenAllowed(IsMatch(w, c) /\ valid)
          /\ IF IsMatch(w, c) /\ valid
             THEN /\ prefix_matches' = prefix_matches + 1
                  /\ w_key' = [w_key EXCEPT ![w] = c.id]
                  /\ w_pc' = [w_pc EXCEPT ![w] = "send"]
                  /\ UNCHANGED <<total_attempts, local_attempts, batch_i, discarded>>
             ELSE /\ CountAttempt(w)
                  /\ discarded' = IF IsMatch(w, c) THEN discarded + 1 ELSE discarded
                  /\ UNCHANGED <<prefix_matches, w_key>>
    /\ generated' = generated + 1
    /\ gen_after_stop' = [gen_after_stop EXCEPT ![w] = IF stop_search THEN @ + 1 ELSE @]
    /\ UNCHANGED <<fixed_vars, stop_search, chan_vars, mon_vars, main_vars,
                   prefix_bytes>>

WorkerGenerate(w) == \E c \in Candidates : WorkerGen(w, c)

\* variant: a failed send stores the stop flag before returning
WorkerSend_SetsStop(w) ==
    /\ w_pc[w] = "send"
    /\ IF found_receiver
       THEN /\ chan' = Append(chan, w_key[w])
            /\ w_pc' = [w_pc EXCEPT ![w] = "count"]
            /\ UNCHANGED stop_search
       ELSE /\ w_pc' = [w_pc EXCEPT ![w] = "done"]
            /\ stop_search' = TRUE
            /\ UNCHANGED chan
    /\ w_key' = [w_key EXCEPT ![w] = 0]
    /\ UNCHANGED <<fixed_vars, total_attempts, prefix_matches, found_sender,
                   found_receiver, mon_vars, main_vars, prefix_bytes, local_attempts,
                   batch_i, generated, gen_after_stop, discarded>>

\* variant: a failed send takes the match back out of the counter
WorkerSend_Uncounts(w) ==
    /\ w_pc[w] = "send"
    /\ IF found_receiver
       THEN /\ chan' = Append(chan, w_key[w])
            /\ w_pc' = [w_pc EXCEPT ![w] = "count"]
            /\ UNCHANGED prefix_matches
       ELSE /\ w_pc' = [w_pc EXCEPT ![w] = "done"]
            /\ prefix_matches' = prefix_matches - 1
            /\ UNCHANGED chan
    /\ w_key' = [w_key EXCEPT ![w] = 0]
    /\ UNCHANGED <<fixed_vars, total_attempts, stop_search, found_sender,
                   found_receiver, mon_vars, main_vars, prefix_bytes, local_attempts,
                   batch_i, generated, gen_after_stop, discarded>>

\* cpu.rs:74-76  send; a send on a channel without receiver returns from search
WorkerSend(w) ==
    /\ w_pc[w] = "send"
    /\ IF found_receiver
       THEN /\ chan' = Append(chan, w_key[w])
            /\ w_pc' = [w_pc EXCEPT ![w] = "count"]
       ELSE /\ w_pc' = [w_pc EXCEPT ![w] = "done"]
            /\ UNCHANGED chan
    /\ w_key' = [w_key EXCEPT ![w] = 0]
    /\ UNCHANGED <<fixed_vars, stats_vars, found_sender, found_receiver, mon_vars,
                   main_vars, prefix_bytes, local_attempts, batch_i, generated,
                   gen_after_stop, discarded>>

\* cpu.rs:80-88  the attempt of a candidate that was sent
WorkerCount(w) ==
    /\ w_pc[w] = "count"
    /\ CountAttempt(w)
    /\ UNCHANGED <<fixed_vars, prefix_matches, stop_search, chan_vars, mon_vars,
                   main_vars, prefix_bytes, w_key, generated, gen_after_stop, discarded>>

\* variant: the final flush stores the residual count instead of adding it
WorkerFinalFlush_Store(w) ==
    /\ w_pc[w] = "flush"
    /\ IF local_attempts[w] > 0
       THEN total_attempts' = local_attempts[w]
       ELSE UNCHANGED total_attempts
    /\ w_pc' = [w_pc EXCEPT ![w] = "done"]
    /\ UNCHANGED <<fixed_vars, prefix_matches, stop_search, chan_vars, mon_vars,
                   main_vars, prefix_bytes, local_attempts, batch_i, w_key, generated,
                   gen_after_stop, discarded>>

\* variant: the function returns without the final flush
WorkerFinalFlush_Skipped(w) ==
    /\ w_pc[w] = "flush"
    /\ w_pc' = [w_pc EXCEPT ![w] = "done"]
    /\ UNCHANGED <<fixed_vars, stats_vars, chan_vars, mon_vars,
                   main_vars, prefix_bytes, local_attempts, batch_i, w_key, generated,
                   gen_after_stop, discarded>>

\* cpu.rs:92-97  the final flush, then the function returns
WorkerFinalFlush(w) ==
    /\ w_pc[w] = "flush"
    /\ IF local_attempts[w] > 0
       THEN total_attempts' = total_attempts + local_attempts[w]
       ELSE UNCHANGED total_attempts
    /\ w_pc' = [w_pc EXCEPT ![w] = "done"]
    /\ UNCHANGED <<fixed_vars, prefix_matches, stop_search, chan_vars, mon_vars,
                   main_vars, prefix_bytes, local_attempts, batch_i, w_key, generated,
                   gen_after_stop, discarded>>

WorkerStep(w) ==
    \/ WorkerOuterCheck(w)
    \/ WorkerInnerCheck(w)
    \/ WorkerGenerate(w)
    \/ WorkerSend(w)
    \/ WorkerCount(w)
    \/ WorkerFinalFlush(w)

(***************************************************************************)
(* The monitor thread of run_key_search (keygen.rs:109-160).               *)
(***************************************************************************)

\* variant: the sample is compared with > instead of >=
MonitorShouldStop_OffByOne(found) ==
    IF search_behavior.kind = "FindN" THEN found > search_behavior.n ELSE FALSE

\* variant: the Continuous arm applies a target of one match
MonitorShouldStop_NoPolicy(found) ==
    IF search_behavior.kind = "FindN" THEN found >= search_behavior.n ELSE found >= 1

\* variant: the sample is compared with the target less one
MonitorShouldStop_Early(found) ==
    IF search_behavior.kind = "FindN" THEN found + 1 >= search_behavior.n ELSE FALSE

\* keygen.rs:150-153  the monitor's stop decision on its sample
MonitorShouldStop(found) ==
    IF search_behavior.kind = "FindN" THEN found >= search_behavior.n ELSE FALSE

\* variant: the monitor reports the attempts but does not reload the matches
MonitorSample_Stale ==
    /\ mon_pc = "sleep"
    /\ last_attempts' = total_attempts
    /\ mon_pc' = "check"
    /\ UNCHANGED <<fixed_vars, stats_vars, chan_vars, worker_vars, main_vars,
                   prefix_found>>

\* keygen.rs:115-147  sleep, load total_attempts and prefix_matches, report the
\* rate (current_attempts - last_attempts), remember the sample
MonitorSample ==
    /\ mon_pc = "sleep"
    /\ prefix_found' = prefix_matches
    /\ last_attempts' = total_attempts
    /\ mon_pc' = "check"
    /\ UNCHANGED <<fixed_vars, stats_vars, chan_vars, worker_vars, main_vars>>

\* variant: the decision itself is stored on every round
MonitorCheck_StoresDecision ==
    /\ mon_pc = "check"
    /\ stop_search' = MonitorShouldStop(prefix_found)
    /\ mon_pc' = IF MonitorShouldStop(prefix_found) THEN "done" ELSE "sleep"
    /\ UNCHANGED <<fixed_vars, total_attempts, prefix_matches, chan_vars, worker_vars,
                   main_vars, last_attempts, prefix_found>>

\* keygen.rs:149-158  store the stop flag and leave the loop, or loop again
MonitorCheck ==
    /\ mon_pc = "check"
    /\ IF MonitorShouldStop(prefix_found)
       THEN /\ stop_search' = TRUE
            /\ mon_pc' = "done"
       ELSE /\ mon_pc' = "sleep"
            /\ UNCHANGED stop_search
    /\ UNCHANGED <<fixed_vars, total_attempts, prefix_matches, chan_vars, worker_vars,
                   main_vars, last_attempts, prefix_found>>

MonitorStep == MonitorSample \/ MonitorCheck

(***************************************************************************)
(* run_key_search on the calling thread (keygen.rs:76-208).                *)
(***************************************************************************)

\* variant: the target is compared with > instead of >=
ConsumerShouldStop_OffByOne(found) ==
    IF search_behavior.kind = "FindN" THEN found > search_behavior.n ELSE FALSE

\* variant: without a target the consumer stops at the first key
ConsumerShouldStop_FirstKey(found) ==
    IF search_behavior.kind = "FindN" THEN found >= search_behavior.n ELSE found >= 1

\* keygen.rs:178-181  the consumer's stop decision on its processed count
ConsumerShouldStop(found) ==
    IF search_behavior.kind = "FindN" THEN found >= search_behavior.n ELSE FALSE

\* variant: the coordinator keeps its own Sender (no drop(found_sender))
MainSpawn_KeepsSender ==
    /\ main_pc = "start"
    /\ w_pc' = [w \in Workers |-> "outer"]
    /\ prefix_bytes' = [w \in Workers |-> hex_string_to_bytes(prefix)]
    /\ mon_pc' = "sleep"
    /\ main_pc' = "recv"
    /\ UNCHANGED <<fixed_vars, stats_vars, chan_vars, local_attempts,
                   batch_i, w_key, generated, gen_after_stop, discarded, last_attempts,
                   prefix_found, total_found, found_key, key_file>>

\* keygen.rs:91-160  spawn the workers, drop the own Sender, spawn the monitor
MainSpawn ==
    /\ main_pc = "start"
    /\ w_pc' = [w \in Workers |-> "outer"]
    /\ prefix_bytes' = [w \in Workers |-> hex_string_to_bytes(prefix)]
    /\ found_sender' = FALSE
    /\ mon_pc' = "sleep"
    /\ main_pc' = "recv"
    /\ UNCHANGED <<fixed_vars, stats_vars, chan, found_receiver, local_attempts,
                   batch_i, w_key, generated, gen_after_stop, discarded, last_attempts,
                   prefix_found, total_found, found_key, key_file>>

\* a Sender of the channel still exists
SenderAlive == found_sender \/ \E w \in Workers : w_pc[w] # "done"

\* keygen.rs:164  found_receiver.recv(): a key, or Err once the channel is
\* empty and every Sender is gone; blocks otherwise
MainRecv ==
    /\ main_pc = "recv"
    /\ IF chan # <<>>
       THEN /\ found_key' = Head(chan)
            /\ chan' = Tail(chan)
            /\ main_pc' = "process"
       ELSE /\ ~SenderAlive
            /\ main_pc' = "join_workers"
            /\ UNCHANGED <<chan, found_key>>
    /\ UNCHANGED <<fixed_vars, stats_vars, found_sender, found_receiver, worker_vars,
                   mon_vars, total_found, key_file>>

\* variant: the file is created anew by each call (File::create, no append)
log_found_key_Truncates(file, key, ok) ==
    IF ok THEN <<key>> ELSE file

\* keygen.rs:15-23  log_found_key: append the line of the key, or fail and
\* write nothing
log_found_key(file, key, ok) ==
    IF ok THEN Append(file, key) ELSE file

\* keygen.rs:21  the line "<private key>; <public key>" written for a key
KeyFileLine(key) == <<FoundKeyOf(key).private_key, FoundKeyOf(key).public_key>>

\* variant: a failed write ends the consumer loop (log_found_key(..)? with break)
MainProcess_StopsOnLogError ==
    /\ main_pc = "process"
    /\ found_key' = 0
    /\ \E ok \in BOOLEAN :
          /\ key_file' = log_found_key(key_file, found_key, ok)
          /\ IF ok
             THEN /\ total_found' = total_found + 1
                  /\ IF ConsumerShouldStop(total_found + 1)
                     THEN /\ stop_search' = TRUE
                          /\ main_pc' = "join_workers"
                     ELSE /\ main_pc' = "recv"
                          /\ UNCHANGED stop_search
             ELSE /\ main_pc' = "join_workers"
                  /\ UNCHANGED <<total_found, stop_search>>
    /\ UNCHANGED <<fixed_vars, total_attempts, prefix_matches, chan_vars, worker_vars,
                   mon_vars>>

\* keygen.rs:165-186  print, log (the write may fail), count, apply the policy
MainProcess ==
    /\ main_pc = "process"
    /\ \E ok \in BOOLEAN : key_file' = log_found_key(key_file, found_key, ok)
    /\ total_found' = total_found + 1
    /\ found_key' = 0
    /\ IF ConsumerShouldStop(total_found + 1)
       THEN /\ stop_search' = TRUE
            /\ main_pc' = "join_workers"
       ELSE /\ main_pc' = "recv"
            /\ UNCHANGED stop_search
    /\ UNCHANGED <<fixed_vars, total_attempts, prefix_matches, chan_vars, worker_vars,
                   mon_vars>>

\* variant: the worker handles are not joined
MainJoinWorkers_NoJoin ==
    /\ main_pc = "join_workers"
    /\ main_pc' = "join_monitor"
    /\ UNCHANGED <<fixed_vars, stats_vars, chan_vars, worker_vars, mon_vars,
                   total_found, found_key, key_file>>

\* keygen.rs:190-192  join every worker handle
MainJoinWorkers ==
    /\ main_pc = "join_workers"
    /\ AllWorkersDone
    /\ main_pc' = "join_monitor"
    /\ UNCHANGED <<fixed_vars, stats_vars, chan_vars, worker_vars, mon_vars,
                   total_found, found_key, key_file>>

\* keygen.rs:194  join the monitor handle
MainJoinMonitor ==
    /\ main_pc = "join_monitor"
    /\ mon_pc = "done"
    /\ main_pc' = "summary"
    /\ UNCHANGED <<fixed_vars, stats_vars, chan_vars, worker_vars, mon_vars,
                   total_found, found_key, key_file>>

\* keygen.rs:196-207  print the summary and return Ok (the Receiver, and with
\* it whatever is still queued, is dropped only as the function returns)
MainSummary ==
    /\ main_pc = "summary"
    /\ main_pc' = "done"
    /\ UNCHANGED <<fixed_vars, stats_vars, chan_vars, worker_vars, mon_vars,
                   total_found, found_key, key_file>>

MainStep ==
    \/ MainSpawn
    \/ MainRecv
    \/ MainProcess
    \/ MainJoinWorkers
    \/ MainJoinMonitor
    \/ MainSummary

Next ==
    \/ MainStep
    \/ MonitorStep
    \/ \E w \in Workers : WorkerStep(w)

Spec == Init /\ [][Next]_vars

\* a candidate that passes the prefix check
WorkerGenMatch(w) ==
    /\ w_pc[w] = "gen"
    /\ \E c \in Candidates : IsMatch(w, c) /\ WorkerGen(w, c)

\* every thread that can take a step eventually takes one, and a worker that
\* generates candidates again and again eventually draws a matching one
Fairness ==
    /\ WF_vars(MainStep)
    /\ WF_vars(MonitorStep)
    /\ \A w \in 1..MaxWorkers : WF_vars(w \in Workers /\ WorkerStep(w))
    /\ \A w \in 1..MaxWorkers : SF_vars(w \in Workers /\ WorkerGenMatch(w))

\* the fair runs of run_key_search are explored with one or two workers
FairInit == Init /\ cpu_threads \in {1, 2}

FairSpec == FairInit /\ [][Next]_vars /\ Fairness

\* run_key_search on patterns of both batch sizes, with one or two workers
InitBatches ==
    /\ InitRun(Prefixes \cup LongPrefixes)
    /\ cpu_threads \in {1, 2}
    /\ open_validation = FALSE
    /\ stop_search = FALSE
    /\ main_pc = "start"

SpecBatches == InitBatches /\ [][Next]_vars

\* run_key_search called with SearchBehavior::FindN(0), which the type admits
\* (main never builds it: max_keys = 0 becomes Continuous): the monitor stops
\* the workers at its first sample, so the workers can all return before any
\* key is sent and the consumer meets the closed channel
InitZeroTarget ==
    /\ InitRunOf(Prefixes, { [kind |-> "FindN", n |-> 0] })
    /\ cpu_threads \in {1, 2}
    /\ open_validation = FALSE
    /\ stop_search = FALSE
    /\ main_pc = "start"

\* the calling thread is scheduled; the other threads may stall
ZeroTargetSpec == InitZeroTarget /\ [][Next]_vars /\ WF_vars(MainStep)

\* the runs in which only the monitor thread is sure to be scheduled: the
\* consumer and the workers may stall at any point
MonitorFairSpec == FairInit /\ [][Next]_vars /\ WF_vars(MonitorStep)

(***************************************************************************)
(* main (main.rs:14-66): the arguments are parsed, create_search_config    *)
(* validates them, and only a configuration it returned is handed to       *)
(* run_key_search.                                                         *)
(*   parse  : the arguments are read, no configuration exists yet          *)
(*   failed : create_search_config returned Err and main returned it       *)
(*   start  : run_key_search was entered (the runs of Spec start here)     *)
(***************************************************************************)

\* no configuration, no SearchStats, no channel and no thread exist
InitNoRun ==
    /\ prefix = NoConfig.prefix
    /\ search_behavior = NoConfig.search_behavior
    /\ cpu_threads = NoConfig.cpu_threads
    /\ total_attempts = 0
    /\ prefix_matches = 0
    /\ stop_search = FALSE
    /\ chan = <<>>
    /\ found_sender = TRUE
    /\ found_receiver = TRUE
    /\ w_pc = <<>>
    /\ prefix_bytes = <<>>
    /\ local_attempts = <<>>
    /\ batch_i = <<>>
    /\ w_key = <<>>
    /\ generated = 0
    /\ gen_after_stop = <<>>
    /\ discarded = 0
    /\ open_validation = FALSE
    /\ mon_pc = "idle"
    /\ last_attempts = 0
    /\ prefix_found = 0
    /\ total_found = 0
    /\ found_key = 0

\* and the key file is absent
InitIdle ==
    /\ InitNoRun
    /\ key_file = <<>>

\* main.rs:55-60  the pattern and max-keys arguments as typed
InitMain ==
    /\ InitIdle
    /\ secure = <<>>
    /\ log_calls = NoLog
    /\ pattern \in Patterns
    /\ max_keys \in 0..MaxN
    /\ parallelism \in Parallelism
    /\ config_error = ""
    /\ call = NoCall
    /\ ret = NoRet
    /\ main_pc = "parse"

\* the configuration c becomes the SearchConfig of the run; its workers exist
\* as threads that are not spawned yet
EnterRun(c) ==
    /\ prefix' = c.prefix
    /\ search_behavior' = c.search_behavior
    /\ cpu_threads' = c.cpu_threads
    /\ w_pc' = [w \in 1..c.cpu_threads |-> "idle"]
    /\ prefix_bytes' = [w \in 1..c.cpu_threads |-> <<>>]
    /\ local_attempts' = [w \in 1..c.cpu_threads |-> 0]
    /\ batch_i' = [w \in 1..c.cpu_threads |-> 0]
    /\ w_key' = [w \in 1..c.cpu_threads |-> 0]
    /\ gen_after_stop' = [w \in 1..c.cpu_threads |-> 0]
    /\ main_pc' = "start"

\* variant: the Result is not inspected, the search runs on whatever was typed
MainConfigure_Unchecked ==
    /\ main_pc = "parse"
    /\ EnterRun([prefix |-> to_uppercase(pattern),
                 search_behavior |-> search_behavior_of(max_keys),
                 cpu_threads |-> cpu_threads_of(parallelism.n)])
    /\ UNCHANGED <<cli_vars, call_vars, open_validation, secure, log_calls, stats_vars, chan_vars,
                   generated, discarded, mon_vars, total_found, found_key, key_file>>

\* main.rs:62-65  create_search_config(pattern, max_keys)?, then run_key_search
MainConfigure ==
    /\ main_pc = "parse"
    /\ LET r == create_search_config(pattern, max_keys, parallelism)
       IN  IF r.ok
           THEN /\ EnterRun(r.config)
                /\ UNCHANGED config_error
           ELSE /\ config_error' = r.error
                /\ main_pc' = "failed"
                /\ UNCHANGED <<config_vars, w_pc, prefix_bytes, local_attempts, batch_i,
                               w_key, gen_after_stop>>
    /\ UNCHANGED <<pattern, max_keys, parallelism, call_vars, open_validation, secure, log_calls,
                   stats_vars, chan_vars, generated, discarded, mon_vars, total_found,
                   found_key, key_file>>

(***************************************************************************)
(* run_key_search with the worker taken on its own terms: cpu.rs:64 asks   *)
(* validate_meshcore_key_format and handles both answers.  The function as *)
(* written accepts every 64-byte array (utils.rs:51-59, 84-102), so in the *)
(* runs of Spec the answer is always true; here the answer is left open,   *)
(* which shows what the worker does with either.                           *)
(***************************************************************************)
InitOpenValidation ==
    /\ InitCommon
    /\ cpu_threads \in {1, 2}
    /\ open_validation = TRUE
    /\ stop_search = FALSE
    /\ main_pc = "start"

SpecOpenValidation == InitOpenValidation /\ [][Next]_vars

NextMain ==
    \/ MainConfigure
    \/ Next

SpecMain == InitMain /\ [][NextMain]_vars

(***************************************************************************)
(* The functions of utils.rs called on their own, as the unit tests of     *)
(* utils.rs call them: one call on one input, and the value it returns.    *)
(***************************************************************************)

\* byte sequences of up to MaxLen bytes over two byte values
ByteSeqs == UNION { [1..n -> {18, 171}] : n \in 0..MaxLen }

\* strings of up to MaxLen hex digits, lower and upper case
HexStrings == UNION { [1..n -> {"a", "B", "1", "F"}] : n \in 0..MaxLen }

\* performance.rs:13  the cache is valid for 12 hours
CACHE_VALIDITY_HOURS == 12

\* the seconds CACHE_VALIDITY_HOURS * 3600 compares the age with
CacheValidity == CACHE_VALIDITY_HOURS * 3600

\* Option<PerformanceResult>
None == <<>>
Some(v) == <<v>>

\* performance.json: absent or unreadable, not the JSON of a
\* PerformanceResult, or a record (of which the timestamp matters)
CacheRecord(t) == [kind |-> "record", timestamp |-> t]
CacheFiles(now) ==
    { [kind |-> "missing"], [kind |-> "unreadable"], [kind |-> "corrupt"] }
    \cup { CacheRecord(now + d) :
             d \in { -(25 * 3600), -(CacheValidity + 1), -CacheValidity,
                     -(CacheValidity - 1), -3600, -1, 0, 1, 3600, CacheValidity } }

\* the seconds since the epoch at the moment of the call
Nows == { 100000, 200000, 300000 }

\* performance.rs:17-35  PerformanceCache::load.  now - result.timestamp is
\* a subtraction on u64: when the timestamp is the larger one it panics in a
\* build with overflow checks, and wraps to 2^64 - (timestamp - now) in one
\* without, which for the times used here is far above the validity.
PerformanceCache_load(file, now, overflow_checks) ==
    IF file.kind # "record"
    THEN [panicked |-> FALSE, result |-> None]
    ELSE IF now >= file.timestamp
         THEN [panicked |-> FALSE,
               result |-> IF now - file.timestamp < CacheValidity
                          THEN Some(file) ELSE None]
         ELSE IF overflow_checks
              THEN [panicked |-> TRUE, result |-> None]
              ELSE [panicked |-> FALSE, result |-> None]

\* secure.rs:85-176  the tools try_platform_secure_delete runs, in order, in
\* the build for a target ("other": a target with none of the three blocks)
Platforms == {"macos", "linux", "windows", "other"}
PlatformTools(platform) ==
    CASE platform = "macos"   -> <<"rm -P">>
      [] platform = "linux"   -> <<"shred -vfz -n 3", "wipe -rf", "srm">>
      [] platform = "windows" -> <<"sdelete -p 3 -s -z", "cipher /w:">>
      [] OTHER                -> <<>>
AllTools == UNION { { PlatformTools(p)[k] : k \in 1..Len(PlatformTools(p)) } : p \in Platforms }

\* what a tool that exits with success has done to the file it was given:
\* rm -P, wipe, srm and sdelete overwrite and unlink it; shred without -u
\* overwrites it in place and leaves it; cipher /w: wipes the free space of
\* the directory and does not touch it
ToolRemovesFile(tool) == tool \in {"rm -P", "wipe -rf", "srm", "sdelete -p 3 -s -z"}

\* Command::output() of a tool: the program could not be started, it exited
\* with a failure status, or it exited with success
ToolOutcomes == {"not started", "failed", "success"}

\* secure.rs:85-176  try_platform_secure_delete from tool k on: Ok(true) at
\* the first tool that succeeds (after cipher the file is removed with
\* remove_file, whose error is returned), Ok(false) when none did
RECURSIVE try_platform_secure_delete(_, _, _, _)
try_platform_secure_delete(tools, k, outcome, remove_ok) ==
    IF k > Len(tools)
    THEN [value |-> "Ok(false)", exists |-> TRUE, invoked |-> tools]
    ELSE IF outcome[tools[k]] = "success"
         THEN IF tools[k] = "cipher /w:"
              THEN [value   |-> IF remove_ok THEN "Ok(true)" ELSE "Err",
                    exists  |-> ~remove_ok,
                    invoked |-> SubSeq(tools, 1, k)]
              ELSE [value   |-> "Ok(true)",
                    exists  |-> ~ToolRemovesFile(tools[k]),
                    invoked |-> SubSeq(tools, 1, k)]
         ELSE try_platform_secure_delete(tools, k + 1, outcome, remove_ok)

\* secure.rs:49-80  secure_wipe_file: its result, whether the file exists
\* afterwards, the tools it ran and whether it used the plain remove_file
secure_wipe_file(platform, exists, outcome, remove_ok) ==
    IF ~exists
    THEN [result |-> "Ok", exists |-> FALSE, invoked |-> <<>>, plain |-> FALSE]
    ELSE LET r == try_platform_secure_delete(PlatformTools(platform), 1, outcome, remove_ok)
         IN  IF r.value = "Err"
             THEN [result |-> "Err", exists |-> r.exists, invoked |-> r.invoked,
                   plain |-> FALSE]
             ELSE IF r.value = "Ok(true)"
             THEN [result |-> "Ok", exists |-> r.exists, invoked |-> r.invoked,
                   plain |-> FALSE]
             ELSE IF remove_ok
             THEN [result |-> "Ok", exists |-> FALSE, invoked |-> r.invoked,
                   plain |-> TRUE]
             ELSE [result |-> "Err", exists |-> TRUE, invoked |-> r.invoked,
                   plain |-> TRUE]

\* byte sequences that are encoded and decoded again
RoundTripBytes == UNION { [1..n -> {0, 18, 154, 255}] : n \in 0..MaxLen }

\* strings of up to MaxLen characters that need not be hex digits
TextStrings == UNION { [1..n -> {"a", "G", "e_acute"}] : n \in 0..MaxLen }

\* slices offered as expanded keys: too short, exact, too long
KeyInputs ==
    { [k \in 1..n |-> b] : n \in {0, 32, 63, 64, 65, 96}, b \in {0, 255} }

\* seeds whose digest stand-in takes every byte value at every index
Seeds == { [k \in 1..32 |-> b] : b \in 0..255 }

InitUtils ==
    /\ InitIdle
    /\ secure = <<>>
    /\ log_calls = NoLog
    /\ pattern = <<>>
    /\ max_keys = 0
    /\ parallelism = [ok |-> FALSE, n |-> 0]
    /\ config_error = ""
    /\ main_pc = "idle"
    /\ ret = NoRet
    /\ \/ \E k \in ByteSeqs, p \in ByteSeqs :
             call = [fn |-> "check_prefix_match", args |-> <<k, p>>]
       \/ \E h \in HexStrings :
             call = [fn |-> "hex_string_to_bytes", args |-> <<h>>]
       \/ \E b \in KeyInputs :
             call = [fn |-> "validate_meshcore_key_format", args |-> <<b>>]
       \/ \E b \in KeyInputs :
             call = [fn |-> "extract_public_key_from_meshcore_key", args |-> <<b>>]
       \/ \E sd \in Seeds :
             call = [fn |-> "create_meshcore_private_key", args |-> <<sd>>]
       \/ \E n \in 0..MaxPrefixLen :
             call = [fn |-> "batch_size", args |-> <<n>>]
       \/ \E t \in TextStrings :
             call = [fn |-> "hex_string_to_bytes on text", args |-> <<t>>]
       \/ \E b \in RoundTripBytes :
             call = [fn |-> "hex round trip", args |-> <<b>>]
       \/ \E p \in Platforms, e \in BOOLEAN, o \in [AllTools -> ToolOutcomes] :
             call = [fn |-> "secure_wipe_file", args |-> <<p, e, o>>]
       \/ \E now \in Nows : \E f \in CacheFiles(now) :
             call = [fn |-> "PerformanceCache::load", args |-> <<f, now>>]

\* the call of fn returns the value v
Return(fn, v) ==
    /\ call.fn = fn
    /\ ~ret.done
    /\ ret' = [done |-> TRUE, value |-> v]
    /\ UNCHANGED <<cli_vars, call, config_vars, open_validation, secure, log_calls, stats_vars,
                   chan_vars, worker_vars, mon_vars, main_vars>>

CallCheckPrefixMatch ==
    /\ call.fn = "check_prefix_match"
    /\ Return("check_prefix_match", check_prefix_match(call.args[1], call.args[2]))

CallHexStringToBytes ==
    /\ call.fn = "hex_string_to_bytes"
    /\ Return("hex_string_to_bytes", hex_string_to_bytes(call.args[1]))

CallValidate ==
    /\ call.fn = "validate_meshcore_key_format"
    /\ Return("validate_meshcore_key_format", validate_meshcore_key_format(call.args[1]))

CallExtract ==
    /\ call.fn = "extract_public_key_from_meshcore_key"
    /\ Return("extract_public_key_from_meshcore_key",
              extract_public_key_from_meshcore_key(call.args[1]))

CallCreateKey ==
    /\ call.fn = "create_meshcore_private_key"
    /\ Return("create_meshcore_private_key", create_meshcore_private_key(call.args[1]))

\* utils.rs:12-30  hex_string_to_bytes on any string: it returns bytes, or
\* panics in the slice
CallHexStringToBytesText ==
    /\ call.fn = "hex_string_to_bytes on text"
    /\ Return("hex_string_to_bytes on text",
              IF hex_string_to_bytes_panics(call.args[1])
              THEN [panicked |-> TRUE, bytes |-> <<>>]
              ELSE [panicked |-> FALSE, bytes |-> hex_string_to_bytes(call.args[1])])

\* utils.rs:330-338  hex::encode(bytes).to_uppercase(), then
\* hex_string_to_bytes of the string
CallHexRoundTrip ==
    /\ call.fn = "hex round trip"
    /\ Return("hex round trip",
              LET hex_string == hex_encode_upper(call.args[1])
              IN  hex_string_to_bytes(hex_string))

\* performance.rs:17-35  PerformanceCache::load() on the file and the clock
\* of the call, in a build with or without overflow checks
CallPerformanceCacheLoad ==
    /\ call.fn = "PerformanceCache::load"
    /\ \E overflow_checks \in BOOLEAN :
          Return("PerformanceCache::load",
                 PerformanceCache_load(call.args[1], call.args[2], overflow_checks))

\* secure.rs:49-80  secure_wipe_file(filename) in the build for a platform,
\* on a file that exists or not, with the outcome of each tool of the call
\* and of remove_file
CallSecureWipeFile ==
    /\ call.fn = "secure_wipe_file"
    /\ \E remove_ok \in BOOLEAN :
          Return("secure_wipe_file",
                 secure_wipe_file(call.args[1], call.args[2], call.args[3], remove_ok))

\* cpu.rs:26-30  the batch size chosen for config.prefix.len()
CallBatchSize ==
    /\ call.fn = "batch_size"
    /\ Return("batch_size", batch_size(call.args[1]))

NextUtils ==
    \/ CallCheckPrefixMatch
    \/ CallHexStringToBytes
    \/ CallValidate
    \/ CallExtract
    \/ CallCreateKey
    \/ CallBatchSize
    \/ CallHexStringToBytesText
    \/ CallHexRoundTrip
    \/ CallPerformanceCacheLoad
    \/ CallSecureWipeFile

SpecUtils == InitUtils /\ [][NextUtils]_vars

(***************************************************************************)
(* log_found_key (keygen.rs) called on its own, several times in a row, on *)
(* a key file that may hold the lines of earlier runs.                     *)
(***************************************************************************)

\* the ids of the keys a line can hold
KeyIds == { c.id : c \in Candidates }

\* meshcore-keys.txt as earlier runs left it: absent or empty, or some lines
ExistingFiles == UNION { [1..n -> KeyIds] : n \in 0..MaxLines }

InitLog ==
    /\ InitNoRun
    /\ pattern = <<>>
    /\ max_keys = 0
    /\ parallelism = [ok |-> FALSE, n |-> 0]
    /\ config_error = ""
    /\ call = NoCall
    /\ ret = NoRet
    /\ main_pc = "idle"
    /\ secure = <<>>
    /\ key_file \in ExistingFiles
    /\ log_calls = [before |-> key_file, keys |-> <<>>, failed |-> 0]

\* keygen.rs:15-23  log_found_key(&key, ..): Ok after the line was appended,
\* or Err of the open or the write
LogFoundKey ==
    /\ main_pc = "idle"
    /\ Len(log_calls.keys) + log_calls.failed < MaxCalls
    /\ \E key \in KeyIds, ok \in BOOLEAN :
          /\ key_file' = log_found_key(key_file, key, ok)
          /\ log_calls' = IF ok
                          THEN [log_calls EXCEPT !.keys = Append(@, key)]
                          ELSE [log_calls EXCEPT !.failed = @ + 1]
    /\ UNCHANGED <<cli_vars, call_vars, config_vars, open_validation, secure,
                   stats_vars, chan_vars, worker_vars, mon_vars,
                   main_pc, total_found, found_key>>

NextLog == LogFoundKey

SpecLog == InitLog /\ [][NextLog]_vars

(***************************************************************************)
(* SecureString and FoundKey (secure.rs, types.rs) used on their own, as   *)
(* the unit tests use them: wrappers are built from secrets, and are then  *)
(* exposed, formatted with {:?} and zeroized in any order.                 *)
(***************************************************************************)

Secrets == { "", "secret_password_123", "0F1E2D3C" }
PublicKeys == { "test_public", "AB12" }
SecureIds == {1, 2}

\* the output of core::fmt::DebugStruct: the type name and the fields in the
\* order given, each with its name and its formatted value
DebugStruct(name, fields) == [name |-> name, fields |-> fields]
\* the Debug output of a str: the text between quotes
DebugStr(text) == <<"\"", text, "\"">>

\* secure.rs:16-18  SecureString::new
SecureString_new(data) == [data |-> data]

\* secure.rs:22-24  SecureString::expose
SecureString_expose(s) == s.data

\* variant: the Debug implementation a #[derive(Debug)] would give
SecureString_fmt_Derived(s) ==
    DebugStruct("SecureString", << <<"data", DebugStr(s.data)>> >>)

\* secure.rs:27-36  impl Debug for SecureString
SecureString_fmt(s) ==
    DebugStruct("SecureString", << <<"data", DebugStr("[REDACTED]")>> >>)

\* variant: zeroize leaves the string as it is
SecureString_zeroize_Noop(s) == s

\* secure.rs:38-44  impl Zeroize for SecureString: String::zeroize overwrites
\* the bytes and leaves the empty string (secure.rs:190-201)
SecureString_zeroize(s) == [s EXCEPT !.data = ""]

\* types.rs:32-36  #[derive(Debug)] struct FoundKey
FoundKey_fmt(k) ==
    DebugStruct("FoundKey", << <<"private_key", SecureString_fmt(k.private_key)>>,
                               <<"public_key", DebugStr(k.public_key)>> >>)

\* nothing was observed yet
NotObserved == [seen |-> FALSE, value |-> <<>>]
Observed(v) == [seen |-> TRUE, value |-> v]

\* a FoundKey built around SecureString::new(secret), with what was observed
\* of it: built_from and zeroized record its history, debug, key_debug and
\* exposed the last result of each observation, exposed_zeroized whether the
\* last expose came after a zeroize
SecureObject(secret, pk) ==
    [key |-> [private_key |-> SecureString_new(secret), public_key |-> pk],
     built_from |-> secret,
     zeroized |-> FALSE,
     debug |-> NotObserved,
     key_debug |-> NotObserved,
     exposed |-> NotObserved,
     exposed_zeroized |-> FALSE]

run_vars == <<cli_vars, call_vars, config_vars, open_validation, log_calls, stats_vars, chan_vars,
              worker_vars, mon_vars, main_vars>>

InitSecure ==
    /\ InitIdle
    /\ pattern = <<>>
    /\ max_keys = 0
    /\ parallelism = [ok |-> FALSE, n |-> 0]
    /\ config_error = ""
    /\ call = NoCall
    /\ ret = NoRet
    /\ main_pc = "idle"
    /\ log_calls = NoLog
    /\ secure \in { [i \in SecureIds |-> SecureObject(f[i][1], f[i][2])] :
                      f \in [SecureIds -> Secrets \X PublicKeys] }

\* let value = s.expose()
SecureExpose(i) ==
    /\ secure' = [secure EXCEPT
          ![i].exposed = Observed(SecureString_expose(secure[i].key.private_key)),
          ![i].exposed_zeroized = secure[i].zeroized]
    /\ UNCHANGED run_vars

\* format!("{:?}", s)
SecureDebug(i) ==
    /\ secure' = [secure EXCEPT
          ![i].debug = Observed(SecureString_fmt(secure[i].key.private_key))]
    /\ UNCHANGED run_vars

\* format!("{:?}", found_key)
FoundKeyDebug(i) ==
    /\ secure' = [secure EXCEPT ![i].key_debug = Observed(FoundKey_fmt(secure[i].key))]
    /\ UNCHANGED run_vars

\* s.zeroize()
SecureZeroize(i) ==
    /\ secure' = [secure EXCEPT
          ![i].key.private_key = SecureString_zeroize(secure[i].key.private_key),
          ![i].zeroized = TRUE]
    /\ UNCHANGED run_vars

NextSecure ==
    \E i \in SecureIds :
        \/ SecureExpose(i)
        \/ SecureDebug(i)
        \/ FoundKeyDebug(i)
        \/ SecureZeroize(i)

SpecSecure == InitSecure /\ [][NextSecure]_vars

(***************************************************************************)
(* CpuKeySearcher::search and spawn_workers driven by a caller that owns   *)
(* the SearchStats and the Receiver, as the tests of cpu.rs do: the caller *)
(* may set the stop flag before it spawns, and may drop the Receiver.      *)
(***************************************************************************)

\* cpu.rs:151-161  config, stats, channel; the flag is stored before spawning
InitSearch ==
    /\ InitCommon
    /\ open_validation = FALSE
    /\ search_behavior = [kind |-> "FindN", n |-> 1]
    /\ stop_search \in BOOLEAN
    /\ main_pc = "test_start"

\* cpu.rs:102-119, 163  spawn_workers; the caller's Sender moves into it
CallerSpawn ==
    /\ main_pc = "test_start"
    /\ w_pc' = [w \in Workers |-> "outer"]
    /\ prefix_bytes' = [w \in Workers |-> hex_string_to_bytes(prefix)]
    /\ found_sender' = FALSE
    /\ main_pc' = "test_join"
    /\ UNCHANGED <<fixed_vars, stats_vars, chan, found_receiver, local_attempts,
                   batch_i, w_key, generated, gen_after_stop, discarded, mon_vars,
                   total_found, found_key, key_file>>

\* the caller drops the Receiver: queued keys are discarded, later sends fail
CallerDropReceiver ==
    /\ main_pc = "test_join"
    /\ found_receiver
    /\ found_receiver' = FALSE
    /\ chan' = <<>>
    /\ UNCHANGED <<fixed_vars, stats_vars, found_sender, worker_vars, mon_vars,
                   main_vars>>

\* cpu.rs:167-169  join every handle
CallerJoin ==
    /\ main_pc = "test_join"
    /\ AllWorkersDone
    /\ main_pc' = "test_done"
    /\ UNCHANGED <<fixed_vars, stats_vars, chan_vars, worker_vars, mon_vars,
                   total_found, found_key, key_file>>

NextSearch ==
    \/ CallerSpawn
    \/ CallerDropReceiver
    \/ CallerJoin
    \/ \E w \in Workers : WorkerStep(w)

SpecSearch == InitSearch /\ [][NextSearch]_vars

\* the caller's threads are scheduled fairly
FairnessSearch ==
    /\ WF_vars(CallerSpawn \/ CallerJoin)
    /\ \A w \in 1..MaxWorkers : WF_vars(w \in Workers /\ WorkerStep(w))

FairSpecSearch == InitSearch /\ [][NextSearch]_vars /\ FairnessSearch

(***************************************************************************)
(* Properties.                                                             *)
(***************************************************************************)
IsFindN == search_behavior.kind = "FindN"
IsContinuous == search_behavior.kind = "Continuous"

\* run_key_search has returned
Completed == main_pc = "done"

\* C1: under FindN(N), N >= 1, with fair scheduling and workers that keep
\* drawing matching candidates, the run terminates: the stop flag is true,
\* every worker has returned, the consumer loop has ended, the monitor has
\* ended and run_key_search has returned.
C1_Terminates ==
    IsFindN ~> (/\ Completed
                /\ stop_search
                /\ AllWorkersDone
                /\ mon_pc = "done")

C1_Witness ==
    /\ IsFindN /\ cpu_threads = 2
    /\ Completed /\ stop_search /\ AllWorkersDone /\ mon_pc = "done"

\* C2: whenever run_key_search has completed under FindN(N), the consumer has
\* processed exactly N keys and the stop flag is true.
C2_ExactlyN ==
    (Completed /\ IsFindN) => (total_found = search_behavior.n /\ stop_search)

C2_Witness ==
    /\ Completed /\ IsFindN /\ cpu_threads = 2
    /\ total_found = search_behavior.n
    /\ prefix_matches > search_behavior.n

\* C3: when run_key_search has completed, every key sent by a worker has been
\* received and processed: the channel is empty and the number of processed
\* keys equals the match counter.
C3_NothingLost ==
    Completed => (chan = <<>> /\ total_found = prefix_matches)

\* C4: under Continuous the stop flag is false in every reachable state.
C4_ContinuousNeverStops == IsContinuous => ~stop_search

C4_Witness ==
    /\ IsContinuous /\ ~stop_search
    /\ prefix_matches >= 1 /\ total_found >= 1
    /\ mon_pc = "check" /\ prefix_found >= 1

\* C5: once the stop flag is true no step of any thread makes it false.
C5_StopMonotonic == [][stop_search => stop_search']_vars

\* both mechanisms have stored the flag
C5_Witness ==
    /\ stop_search
    /\ mon_pc = "done"
    /\ main_pc = "join_workers" /\ IsFindN /\ total_found >= search_behavior.n

\* C6: when run_key_search has completed, total_attempts equals the number of
\* candidates generated by all workers.
C6_AttemptsComplete == Completed => total_attempts = generated

\* a worker flushed periodically and was then stopped with a residual count
C6_Witness ==
    /\ Completed
    /\ \E w \in Workers : /\ local_attempts[w] > 0
                           /\ batch_i[w] < ModelBatch(Len(prefix))
    /\ total_attempts > Total(local_attempts)

\* C7: on every path by which search returns, the worker has added its
\* residual local count to total_attempts, so that once all workers have
\* returned total_attempts accounts for every generated candidate.
C7_FlushedOnEveryReturn == AllWorkersDone => total_attempts = generated

\* C8: once the stop flag is true every worker eventually returns, and no
\* worker generates more than one batch of candidates after the flag was set.
C8_BoundedStop ==
    /\ stop_search ~> AllWorkersDone
    /\ [](\A w \in Workers : gen_after_stop[w] <= ModelBatch(Len(prefix)))

C8_Witness ==
    /\ stop_search /\ AllWorkersDone /\ cpu_threads = 2
    /\ \E w \in Workers : gen_after_stop[w] = 1

\* C9: with the stop flag already true when the workers are spawned, no worker
\* generates a candidate (nothing is sent, both counters stay 0) and all
\* threads are joined.
C9_PresetStop ==
    /\ [](stop_search => (/\ generated = 0
                          /\ chan = <<>>
                          /\ prefix_matches = 0
                          /\ total_attempts = 0))
    /\ stop_search ~> (main_pc = "test_done")

C9_Witness ==
    /\ stop_search /\ cpu_threads = 2 /\ main_pc = "test_done"
    /\ generated = 0 /\ prefix_matches = 0 /\ total_attempts = 0

\* C10: the summary is emitted only after every worker thread and the monitor
\* thread have terminated.
C10_SummaryAfterJoin ==
    (main_pc \in {"summary", "done"}) => (AllWorkersDone /\ mon_pc = "done")

C10_Witness ==
    /\ main_pc = "done" /\ cpu_threads = 2 /\ AllWorkersDone /\ mon_pc = "done"

\* C11: create_search_config returns "Pattern cannot be empty" exactly when
\* the pattern is empty and "Invalid hex characters" exactly when the
\* upper-cased pattern has a character outside 0-9A-F; for every other pattern
\* it succeeds with prefix = the upper-cased pattern provided the query of the
\* available parallelism succeeds, and returns that query's error otherwise;
\* every configuration it yields has a non-empty prefix of upper-case hex
\* digits.
C11_ConfigErrors ==
    LET up == to_uppercase(pattern)
        digits == {"0","1","2","3","4","5","6","7","8","9","A","B","C","D","E","F"}
        nonhex == \E k \in 1..Len(up) : up[k] \notin digits
    IN  main_pc # "parse" =>
          /\ (config_error = "Pattern cannot be empty") <=> (pattern = <<>>)
          /\ (config_error = "Invalid hex characters") <=> nonhex
          /\ (pattern # <<>> /\ ~nonhex /\ parallelism.ok)
                => (main_pc # "failed" /\ config_error = "" /\ prefix = up)
          /\ (pattern # <<>> /\ ~nonhex /\ ~parallelism.ok)
                => (main_pc = "failed" /\ config_error = "available_parallelism")
          /\ main_pc # "failed"
                => (prefix # <<>> /\ \A k \in 1..Len(prefix) : prefix[k] \in digits)

\* a mixed-case pattern was accepted and upper-cased
C11_Witness ==
    /\ main_pc = "start"
    /\ pattern = <<"a","B">> /\ prefix = <<"A","B">>
    /\ config_error = ""

\* C11 as stated: every pattern that is neither empty nor non-hex makes
\* create_search_config succeed with prefix = the upper-cased pattern.
C11_Original ==
    LET up == to_uppercase(pattern)
        digits == {"0","1","2","3","4","5","6","7","8","9","A","B","C","D","E","F"}
        nonhex == \E k \in 1..Len(up) : up[k] \notin digits
    IN  main_pc # "parse" =>
          /\ (config_error = "Pattern cannot be empty") <=> (pattern = <<>>)
          /\ (config_error = "Invalid hex characters") <=> nonhex
          /\ (pattern # <<>> /\ ~nonhex) => (main_pc # "failed" /\ prefix = up)
          /\ main_pc # "failed"
                => (prefix # <<>> /\ \A k \in 1..Len(prefix) : prefix[k] \in digits)

\* C12: create_search_config maps max_keys = 0 to Continuous and max_keys =
\* n >= 1 to FindN(n); no configuration has FindN(0).
C12_BehaviorOfMaxKeys ==
    (main_pc \notin {"parse", "failed"}) =>
        /\ (max_keys = 0) => search_behavior = [kind |-> "Continuous", n |-> 0]
        /\ (max_keys >= 1) => search_behavior = [kind |-> "FindN", n |-> max_keys]
        /\ ~(search_behavior.kind = "FindN" /\ search_behavior.n = 0)

\* an unlimited search was configured from max_keys = 0 and ran to a match
C12_Witness ==
    /\ max_keys = 0 /\ IsContinuous
    /\ main_pc = "process" /\ pattern = <<"a","B">>

\* C13: when the pattern is empty or non-hex the failure is returned before
\* anything is started: main never enters run_key_search, no worker and no
\* monitor exists, no candidate is generated and nothing is sent or consumed.
C13_FailFast ==
    LET up == to_uppercase(pattern)
        invalid == pattern = <<>> \/ \E k \in 1..Len(up) : ~is_ascii_hexdigit(up[k])
    IN  invalid =>
          /\ main_pc \in {"parse", "failed"}
          /\ (main_pc = "failed") => config_error # ""
          /\ cpu_threads = 0 /\ w_pc = <<>>
          /\ mon_pc = "idle"
          /\ generated = 0 /\ prefix_matches = 0 /\ total_attempts = 0
          /\ chan = <<>> /\ total_found = 0

C13_Witness ==
    /\ main_pc = "failed"
    /\ pattern = <<"A","G">> /\ config_error = "Invalid hex characters"
    /\ w_pc = <<>> /\ generated = 0

\* C14: check_prefix_match(K, P) is true iff P is no longer than K and equals
\* the first Len(P) bytes of K: false when P is longer, true for the empty P
\* (also on the empty K), false when P occurs in K only at a later offset.
C14_PrefixMatch ==
    (ret.done /\ call.fn = "check_prefix_match") =>
        LET K == call.args[1]
            P == call.args[2]
        IN  /\ ret.value <=> (Len(P) <= Len(K) /\ \A i \in 1..Len(P) : K[i] = P[i])
            /\ (Len(P) > Len(K)) => ~ret.value
            /\ (P = <<>>) => ret.value

\* the pattern occurs in the key, but not at its start
C14_Witness ==
    /\ ret.done /\ call.fn = "check_prefix_match"
    /\ call.args = << <<18, 171, 18>>, <<171, 18>> >>
    /\ ~ret.value

\* C15: for a string of n hex digits of either case hex_string_to_bytes
\* returns ceil(n/2) bytes whose nibbles in order are the digits, with one 0
\* nibble appended when n is odd; the upper-case and the lower-case spelling
\* of the string give the same bytes.
C15_HexToBytes ==
    (ret.done /\ call.fn = "hex_string_to_bytes") =>
        LET h == call.args[1]
            n == Len(h)
            r == ret.value
            lower == <<"0","1","2","3","4","5","6","7","8","9","a","b","c","d","e","f">>
            upper == <<"0","1","2","3","4","5","6","7","8","9","A","B","C","D","E","F">>
            digit(c) == (CHOOSE v \in 1..16 : lower[v] = c \/ upper[v] = c) - 1
            nibble(i) == IF i % 2 = 1 THEN r[(i + 1) \div 2] \div 16 ELSE r[i \div 2] % 16
        IN  /\ Len(r) = (n + 1) \div 2
            /\ \A i \in 1..n : nibble(i) = digit(h[i])
            /\ (n % 2 = 1) => nibble(n + 1) = 0
            /\ hex_string_to_bytes([i \in 1..n |-> upper[digit(h[i]) + 1]]) = r
            /\ hex_string_to_bytes([i \in 1..n |-> lower[digit(h[i]) + 1]]) = r

\* an odd-length, mixed-case string: "aBF" gives AB F0
C15_Witness ==
    /\ ret.done /\ call.fn = "hex_string_to_bytes"
    /\ call.args[1] = <<"a","B","F">>
    /\ ret.value = <<171, 240>>

\* C16: every generated candidate whose public key, hex-encoded in upper
\* case, begins with the configured pattern is treated as a match (it goes on
\* to be sent), for patterns of even and of odd length.
C16_PrefixedCandidateMatches ==
    [][\A w \in Workers : \A c \in Candidates :
          (/\ WorkerGen(w, c)
           /\ SubSeq(hex_encode_upper(c.public_key), 1, Len(prefix)) = prefix)
          => w_pc'[w] = "send"]_vars

\* C17: every FoundKey a worker sends, the channel holds, the consumer
\* receives or the key file records carries a public key of 64 upper-case hex
\* digits that begins with the configured pattern.
C17_SentKeysMatch ==
    LET digits == {"0","1","2","3","4","5","6","7","8","9","A","B","C","D","E","F"}
        good(pk) == /\ Len(pk) = 64
                    /\ \A i \in 1..64 : pk[i] \in digits
                    /\ SubSeq(pk, 1, Len(prefix)) = prefix
    IN  /\ \A w \in Workers : (w_pc[w] = "send") => good(FoundKeyOf(w_key[w]).public_key)
        /\ \A i \in 1..Len(chan) : good(FoundKeyOf(chan[i]).public_key)
        /\ (main_pc = "process") => good(FoundKeyOf(found_key).public_key)
        /\ \A i \in 1..Len(key_file) : good(KeyFileLine(key_file[i])[2])

\* a key found for the odd-length pattern "A" reached the consumer
C17_Witness ==
    /\ main_pc = "process"
    /\ pattern = <<"A">>
    /\ SubSeq(FoundKeyOf(found_key).public_key, 1, 4) = <<"A","0","A","B">>

\* C19: validate_meshcore_key_format returns true iff its input is exactly 64
\* bytes long, and extract_public_key_from_meshcore_key returns a value iff
\* its input is exactly 64 bytes long.
C19_LengthOnly ==
    /\ (ret.done /\ call.fn = "validate_meshcore_key_format")
          => (ret.value <=> Len(call.args[1]) = 64)
    /\ (ret.done /\ call.fn = "extract_public_key_from_meshcore_key")
          => /\ ret.value.some <=> Len(call.args[1]) = 64
             /\ ret.value.some => Len(ret.value.value) = 32

\* a slice that is too long yields no key
C19_Witness ==
    /\ ret.done /\ call.fn = "extract_public_key_from_meshcore_key"
    /\ Len(call.args[1]) = 96
    /\ ~ret.value.some

\* C20: with h the 64-byte digest of the seed, create_meshcore_private_key
\* returns e with e[0] = h[0] with its 3 lowest bits cleared, e[31] = h[31]
\* with bit 7 cleared and bit 6 set (e[0] is a multiple of 8, 64 <= e[31] <=
\* 127) and e[i] = h[i] at every other index; the masks &248, &63, |64 of the
\* code give what the rule gives, for every byte value.
C20_Clamp ==
    (ret.done /\ call.fn = "create_meshcore_private_key") =>
        LET h(k) == Sha512Byte(call.args[1], k)
            e == ret.value
            bit(x, k) == (x \div (2 ^ k)) % 2
            clear(x, k) == IF bit(x, k) = 1 THEN x - 2 ^ k ELSE x
            set(x, k) == IF bit(x, k) = 1 THEN x ELSE x + 2 ^ k
        IN  /\ Len(e) = 64
            /\ e[1] = clear(clear(clear(h(1), 0), 1), 2)
            /\ e[32] = set(clear(h(32), 7), 6)
            /\ e[1] % 8 = 0
            /\ e[32] >= 64 /\ e[32] <= 127
            /\ \A k \in (2..31) \cup (33..64) : e[k] = h(k)

\* a digest whose byte 31 is 255 and whose byte 0 has low bits set
C20_Witness ==
    /\ ret.done /\ call.fn = "create_meshcore_private_key"
    /\ Sha512Byte(call.args[1], 32) = 255
    /\ ret.value[32] = 127
    /\ ret.value[1] < Sha512Byte(call.args[1], 1)

\* C21: the {:?} output of a SecureString, and of a FoundKey that holds one,
\* is the same for any two secrets (the FoundKey output for equal public
\* keys): the data field shows the fixed text "[REDACTED]"; and expose() on a
\* wrapper gives exactly the string it was built from.
C21_DebugIndependentOfSecret ==
    \A i \in SecureIds :
        /\ \A j \in SecureIds :
              /\ (secure[i].debug.seen /\ secure[j].debug.seen)
                    => secure[i].debug = secure[j].debug
              /\ ( /\ secure[i].key_debug.seen /\ secure[j].key_debug.seen
                    /\ secure[i].key.public_key = secure[j].key.public_key )
                    => secure[i].key_debug = secure[j].key_debug
        /\ secure[i].debug.seen
              => secure[i].debug.value.fields = << <<"data", DebugStr("[REDACTED]")>> >>
        /\ secure[i].key_debug.seen
              => secure[i].key_debug.value.fields[1][2].fields
                    = << <<"data", DebugStr("[REDACTED]")>> >>
        /\ (secure[i].exposed.seen /\ ~secure[i].exposed_zeroized)
              => secure[i].exposed.value = secure[i].built_from

\* two wrappers of different secrets, in keys of the same public key, were
\* both formatted, alone and inside their FoundKey, and one was exposed
C21_Witness ==
    /\ secure # <<>>
    /\ secure[1].built_from # secure[2].built_from
    /\ secure[1].built_from # "" /\ secure[2].built_from # ""
    /\ secure[1].key.public_key = secure[2].key.public_key
    /\ secure[1].debug.seen /\ secure[2].debug.seen
    /\ secure[1].key_debug.seen /\ secure[2].key_debug.seen
    /\ secure[1].exposed.seen /\ ~secure[1].zeroized

\* C22: once zeroize() was called on a SecureString, expose() gives the empty
\* string whatever the wrapper was built from, at every later call; until
\* then every expose() gives the content it was built with, unchanged.
C22_ZeroizeEmpties ==
    \A i \in SecureIds :
        /\ secure[i].zeroized => SecureString_expose(secure[i].key.private_key) = ""
        /\ ~secure[i].zeroized
              => SecureString_expose(secure[i].key.private_key) = secure[i].built_from
        /\ secure[i].exposed.seen
              => secure[i].exposed.value
                   = IF secure[i].exposed_zeroized THEN "" ELSE secure[i].built_from

\* a wrapper of a non-empty secret was zeroized and exposed afterwards, and
\* another, not zeroized, was exposed
C22_Witness ==
    /\ secure # <<>>
    /\ \E i \in SecureIds :
          /\ secure[i].built_from # ""
          /\ secure[i].zeroized
          /\ secure[i].exposed = Observed("")
    /\ \E j \in SecureIds :
          /\ ~secure[j].zeroized
          /\ secure[j].exposed.seen
          /\ secure[j].exposed.value # ""

\* C23: a candidate that matches the prefix but whose expanded key is not
\* accepted by the validation is dropped: nothing is sent for it, the match
\* counter and the stop flag stay as they were, it is counted as exactly one
\* attempt, and the worker goes on to the next iteration of its loops.
C23_RejectedMatch ==
    [][\A w \in Workers :
          (w_pc[w] = "gen" /\ w_pc'[w] # "gen" /\ discarded' # discarded)
          => /\ chan' = chan
             /\ w_key' = w_key
             /\ prefix_matches' = prefix_matches
             /\ stop_search' = stop_search
             /\ w_pc'[w] \in {"inner", "outer"}
             /\ total_attempts' + local_attempts'[w]
                   = total_attempts + local_attempts[w] + 1
             /\ generated' = generated + 1]_vars

\* a matching candidate was dropped and the worker is in its loop again
C23_Witness ==
    /\ open_validation
    /\ discarded >= 1
    /\ prefix_matches = 0
    /\ ~stop_search
    /\ chan = <<>>
    /\ \E w \in Workers : w_pc[w] = "inner" /\ local_attempts[w] >= 1

\* C24: a worker whose send fails because the Receiver is gone returns from
\* search: it is done and stays done (it generates no further candidate),
\* the step leaves the stop flag and the channel as they were, and the
\* position and the counters of every other worker are untouched.
C24_FailedSendReturns ==
    [][\A w \in Workers :
          /\ (w_pc[w] = "send" /\ ~found_receiver /\ w_pc'[w] # "send")
             => /\ w_pc'[w] = "done"
                /\ stop_search' = stop_search
                /\ chan' = chan
                /\ generated' = generated
                /\ \A v \in Workers \ {w} :
                      /\ w_pc'[v] = w_pc[v]
                      /\ local_attempts'[v] = local_attempts[v]
                      /\ batch_i'[v] = batch_i[v]
          /\ w_pc[w] = "done" => w_pc'[w] = "done"]_vars

\* one worker has returned after a failed send while the flag is unset, and
\* the other worker is still in its loop and has generated since
C24_Witness ==
    /\ ~found_receiver
    /\ ~stop_search
    /\ prefix_matches = 1
    /\ \E w \in Workers, v \in Workers :
          /\ w # v
          /\ w_pc[w] = "done"
          /\ w_pc[v] = "inner"
          /\ generated >= 2

\* C25: when the write of a received key fails (the key file is left as it
\* was), the consumer does not retry and does not stop because of it: the key
\* is gone from the channel and from its hands, it counts as one processed
\* key, and the policy decides as after any key: under FindN(n) with the n-th
\* key the flag is stored and the loop left, otherwise the loop receives
\* again with the flag untouched.  No step of the run ends in an error.
C25_LogFailureIgnored ==
    /\ [][(main_pc = "process" /\ main_pc' # "process" /\ key_file' = key_file)
            => /\ total_found' = total_found + 1
               /\ chan' = chan
               /\ found_key' = 0
               /\ IF search_behavior.kind = "FindN"
                     /\ total_found + 1 >= search_behavior.n
                  THEN stop_search' /\ main_pc' = "join_workers"
                  ELSE stop_search' = stop_search /\ main_pc' = "recv"]_vars
    /\ [](main_pc # "failed" /\ config_error = "")

\* a run has returned with a key processed whose line is not in the file
C25_Witness ==
    /\ main_pc = "done"
    /\ total_found >= 1
    /\ Len(key_file) < total_found
    /\ search_behavior.kind = "FindN"
    /\ total_found = search_behavior.n

\* C26: under FindN(n) the stop flag is not set before n matches were
\* counted: in every state of a run, stop_search implies prefix_matches >= n.
C26_NoPrematureStop ==
    (IsFindN /\ stop_search) => prefix_matches >= search_behavior.n

\* the flag was set by the monitor alone with exactly n matches counted,
\* while the consumer has not processed a key yet
C26_Witness ==
    /\ IsFindN
    /\ stop_search
    /\ prefix_matches = search_behavior.n
    /\ mon_pc = "done"
    /\ total_found < search_behavior.n

\* C27: under FindN(n) either mechanism stops the search by itself.  Once n
\* matches are counted the monitor stores the flag even if the consumer never
\* takes another step (only the monitor is scheduled fairly here); the
\* consumer stores the flag in the very step in which it counts its n-th
\* key, whatever the monitor has done; a second store leaves the flag true,
\* and a completed run had the flag set and stays completed.
C27_EitherMechanismSuffices ==
    /\ (IsFindN /\ prefix_matches >= search_behavior.n) ~> stop_search
    /\ []((IsFindN /\ total_found >= search_behavior.n) => stop_search)
    /\ []((IsFindN /\ Completed) => stop_search)
    /\ [][(stop_search => stop_search') /\ (Completed => Completed')]_vars

\* the consumer has stored the flag and left its loop while the monitor has
\* not yet seen the matches
C27_Witness ==
    /\ IsFindN
    /\ stop_search
    /\ total_found = search_behavior.n
    /\ main_pc = "join_workers"
    /\ mon_pc \in {"sleep", "check"}
    /\ prefix_found < search_behavior.n

\* C28: the flag is read before every single candidate: once it is set, a
\* worker generates at most the one candidate it was already about to
\* generate, whatever is left of its batch.
C28_OneCandidateAfterStop ==
    \A w \in Workers : gen_after_stop[w] <= 1

\* a worker generated one candidate after the flag was set and has returned
\* with its batch unfinished
C28_Witness ==
    /\ stop_search
    /\ \E w \in Workers :
          /\ gen_after_stop[w] = 1
          /\ w_pc[w] = "done"
          /\ batch_i[w] < ModelBatch(Len(prefix))

\* the keys handed to the channel while the Receiver exists: queued, in the
\* consumer's hands, or processed
KeysSent == Len(chan) + total_found + (IF main_pc = "process" THEN 1 ELSE 0)

\* C29: a match is counted in prefix_matches before its key is sent, and
\* only a validated match is counted: while the Receiver exists, keys sent
\* <= prefix_matches <= keys sent + number of workers (the difference is the
\* number of workers between their fetch_add and their send); a send that
\* fails leaves the counter as it is, so the key stays counted.
C29_CountedBeforeSent ==
    /\ [](found_receiver =>
             /\ KeysSent <= prefix_matches
             /\ prefix_matches <= KeysSent + cpu_threads
             /\ prefix_matches
                   = KeysSent + Cardinality({w \in Workers : w_pc[w] = "send"}))
    /\ [][\A w \in Workers :
             (w_pc[w] = "send" /\ w_pc'[w] = "done")
                => (prefix_matches' = prefix_matches /\ prefix_matches >= 1)]_vars

\* a worker has returned after a failed send, and its match is in the counter
\* although no key is queued
C29_Witness ==
    /\ ~found_receiver
    /\ chan = <<>>
    /\ prefix_matches >= 1
    /\ \E w \in Workers : w_pc[w] = "done" /\ w_key[w] = 0

\* C30: a worker adds its local count to total_attempts exactly when the
\* local count reaches the update interval, and then resets it: between
\* candidates the local count is below the interval, and every counting step
\* inside the loops either adds exactly one interval to total_attempts and
\* resets the local count, or adds one to the local count and nothing to
\* total_attempts, wherever the worker is in its batch.
C30_FlushAtInterval ==
    /\ [](\A w \in Workers : local_attempts[w] <= ModelInterval - 1)
    /\ [][\A w \in Workers :
             (w_pc[w] \in {"gen", "count"} /\ w_pc'[w] \in {"inner", "outer"})
                => IF local_attempts[w] + 1 = ModelInterval
                   THEN /\ total_attempts' = total_attempts + ModelInterval
                        /\ local_attempts'[w] = 0
                   ELSE /\ total_attempts' = total_attempts
                        /\ local_attempts'[w] = local_attempts[w] + 1]_vars

\* a worker has flushed one interval in the middle of a batch and goes on
\* with a fresh count
C30_Witness ==
    /\ ~stop_search
    /\ total_attempts = ModelInterval
    /\ \E w \in Workers :
          /\ w_pc[w] = "inner"
          /\ local_attempts[w] = 0
          /\ batch_i[w] = ModelInterval
          /\ batch_i[w] < ModelBatch(Len(prefix))

\* the workers that are inside an iteration: their candidate is generated and
\* checked, its attempt is not counted yet
InIteration == {w \in Workers : w_pc[w] \in {"send", "count"}}

C32_CountersMonotonic ==
    /\ [][/\ total_attempts' >= total_attempts
           /\ prefix_matches' >= prefix_matches
           /\ (mon_pc = "sleep" /\ mon_pc' = "check")
                 => (total_attempts - last_attempts >= 0
                     /\ last_attempts' = total_attempts)]_vars
    /\ [](last_attempts <= total_attempts)

\* the monitor has sampled a positive count, has also seen a match, and is
\* about to sample again
C32_Witness ==
    /\ mon_pc = "sleep"
    /\ last_attempts >= 1
    /\ prefix_found >= 1
    /\ total_attempts >= last_attempts

C34_BatchSizeMonotone ==
    (ret.done /\ call.fn = "batch_size" /\ call.args[1] >= 1) =>
        LET n == call.args[1]
        IN  /\ ret.value = IF n <= 4 THEN 1024 ELSE IF n <= 6 THEN 2048 ELSE 4096
            /\ \A m \in 1..n : batch_size(m) <= ret.value
            /\ \A m \in n..MaxPrefixLen : batch_size(m) >= ret.value

\* a pattern of seven characters gets the largest batch
C34_Witness ==
    /\ ret.done /\ call.fn = "batch_size"
    /\ call.args = <<7>>
    /\ ret.value = 4096

\* C35: hex_string_to_bytes fails on no string: for a string of n characters
\* it returns ceil(n/2) bytes whose nibbles are the digits of the string, with
\* 0 for every character that is no hex digit (non-ASCII ones included) and
\* for the padding.
C35_NeverFails ==
    (ret.done /\ call.fn = "hex_string_to_bytes on text") =>
        LET h == call.args[1]
            n == Len(h)
            r == ret.value.bytes
            digit(c) == IF is_ascii_hexdigit(c) THEN HexVal(c) ELSE 0
            nibble(i) == IF i % 2 = 1 THEN r[(i + 1) \div 2] \div 16 ELSE r[i \div 2] % 16
        IN  /\ ~ret.value.panicked
            /\ Len(r) = (n + 1) \div 2
            /\ \A i \in 1..n : nibble(i) = digit(h[i])
            /\ (n % 2 = 1) => nibble(n + 1) = 0

\* C36: encoding a byte sequence as upper-case hex and converting the string
\* back with hex_string_to_bytes returns the original byte sequence.
C36_HexRoundTrip ==
    (ret.done /\ call.fn = "hex round trip") => ret.value = call.args[1]

C36_Witness ==
    /\ ret.done
    /\ call.fn = "hex round trip"
    /\ call.args[1] = <<0, 154, 255>>
    /\ ret.value = <<0, 154, 255>>

\* C37: under Continuous run_key_search never returns: no worker leaves its
\* loop (none reaches the final flush or exits), the monitor never ends, and
\* the consumer stays in its receive loop, going back to recv after each key.
C37_ContinuousNeverReturns ==
    (IsContinuous /\ main_pc # "idle") =>
        /\ \A w \in Workers : w_pc[w] \notin {"flush", "done"}
        /\ mon_pc # "done"
        /\ main_pc \in {"start", "recv", "process"}
        /\ found_receiver

C37_Witness ==
    /\ IsContinuous
    /\ main_pc = "recv"
    /\ total_found >= 1
    /\ chan = <<>>
    /\ mon_pc = "sleep" /\ prefix_found >= 1
    /\ \A w \in Workers : w_pc[w] \in {"outer", "inner", "gen"}

\* C38: log_found_key only appends: a successful call adds exactly one line,
\* the line of its key, at the end of the file and leaves the earlier lines as
\* they were (a failed one changes nothing), so after k successful calls the
\* file holds what it held before, followed by the k keys in call order.
C38_LogOnlyAppends ==
    /\ [][ /\ Len(log_calls'.keys) = Len(log_calls.keys) + 1
              => /\ Len(key_file') = Len(key_file) + 1
                 /\ key_file'[Len(key_file')] = log_calls'.keys[Len(log_calls'.keys)]
                 /\ \A i \in 1..Len(key_file) : key_file'[i] = key_file[i]
           /\ log_calls'.failed # log_calls.failed => key_file' = key_file ]_vars
    /\ [](key_file = log_calls.before \o log_calls.keys)

C38_Witness ==
    /\ log_calls.before = <<2, 1>>
    /\ log_calls.keys = <<1, 2, 1>>
    /\ key_file = <<2, 1, 1, 2, 1>>
    /\ KeyFileLine(key_file[5]) = <<FoundKeyOf(1).private_key, FoundKeyOf(1).public_key>>

\* C39: PerformanceCache::load never fails in its subtraction, also when the
\* timestamp is later than the current time; it returns the record exactly
\* when the file parses and now - timestamp is below 12 hours, None otherwise.
C39_CacheLoad ==
    (ret.done /\ call.fn = "PerformanceCache::load") =>
        LET file == call.args[1]
            now  == call.args[2]
        IN  /\ ~ret.value.panicked
            /\ file.kind # "record" => ret.value.result = None
            /\ (file.kind = "record" /\ file.timestamp <= now) =>
                  ret.value.result =
                     IF now - file.timestamp < 12 * 3600 THEN Some(file) ELSE None

\* C40: whenever secure_wipe_file returns Ok the file does not exist
\* afterwards; for a missing file no tool was run; the plain removal is used
\* only after every tool of the platform was run and none succeeded.
C40_WipedFileIsGone ==
    (ret.done /\ call.fn = "secure_wipe_file" /\ ret.value.result = "Ok") =>
        /\ ~ret.value.exists
        /\ ~call.args[2] => ret.value.invoked = <<>>
        /\ ret.value.plain =>
              /\ ret.value.invoked = PlatformTools(call.args[1])
              /\ \A k \in 1..Len(ret.value.invoked) :
                    call.args[3][ret.value.invoked[k]] # "success"

TypeOK ==
    /\ total_attempts \in Nat
    /\ prefix_matches \in Nat
    /\ stop_search \in BOOLEAN
    /\ \A w \in Workers : local_attempts[w] \in 0..(ModelInterval - 1)

====
